---- MODULE Spec2Model ----
(***************************************************************************)
(* RepoInsight catalog API (app/api/routes/repositories.py and             *)
(* app/api/routes/analysis.py) over the two tables declared in             *)
(* app/models/repository.py and app/models/ai_analysis.py.                 *)
(*                                                                         *)
(* Conventions of the model                                                *)
(*   - text (full_name, q, content) is a sequence of Unicode code points;  *)
(*   - an optional value (Python None or a value) is a sequence of length  *)
(*     0 (None) or 1 (the value);                                          *)
(*   - a request parameter that FastAPI coerces to int arrives as a record *)
(*     [int |-> TRUE, v |-> n] or, when it is not an integer literal, as   *)
(*     [int |-> FALSE, v |-> 0];                                           *)
(*   - a handler runs as one step (synchronous def, one session per        *)
(*     request); req, resp and queries describe the exchange the step      *)
(*     made, until the response is delivered (Complete).  The external     *)
(*     crawler / analysis pipeline writes between exchanges.               *)
(*   - a SELECT without ORDER BY, or with ORDER BY on a key that has ties, *)
(*     returns its rows in any order the database picks, per query;        *)
(*   - any statement may fail (store unavailable); PostgreSQL, the         *)
(*     database of app/config.py, fails a negative OFFSET or LIMIT.        *)
(***************************************************************************)
EXTENDS Integers, Sequences, FiniteSets, TLC

VARIABLES repos, analyses, req, resp, queries

vars   == <<repos, analyses, req, resp, queries>>
stores == <<repos, analyses>>

-----------------------------------------------------------------------------
(* Bounds of the model *)

MaxRepos == 3
MaxLimit == 2

-----------------------------------------------------------------------------
(* Domains the external writers and the clients draw from *)

Urls == { "https://github.com/acme/widgets", "https://github.com/acme/gadgets" }

\* what the pipeline writes: (content, status) with content "" or "W."
AnalysisInputs ==
    { << <<>>, "pending" >>, << <<87, 46>>, "completed" >>, << <<>>, "failed" >> }

\* absent, "", "A", "_", "%"
QueryParams == { <<>>, << <<>> >>, << <<65>> >>, << <<95>> >>, << <<37>> >> }

SortParams == { "stars", "updated", "forks" }

Malformed   == [int |-> FALSE, v |-> 0]
IntParam(n) == [int |-> TRUE, v |-> n]

SkipParams  == { IntParam(n) : n \in -1 .. 1 } \cup { Malformed }
LimitParams == { IntParam(n) : n \in -1 .. MaxLimit } \cup { Malformed }
IdParams    == { IntParam(n) : n \in 0 .. MaxRepos } \cup { Malformed }

-----------------------------------------------------------------------------
(* Values *)

None    == <<>>
Some(v) == <<v>>

\* updated_at has no insert default (onupdate only): NULL until the row is updated
NoTime == 0

\* what the crawler inserts: "aB", "b_", "Ab", "%b"
Catalogue ==
    { [full_name |-> <<97, 66>>, url |-> "https://github.com/acme/widgets",
       stars |-> 1, updated_at |-> NoTime],
      [full_name |-> <<98, 95>>, url |-> "https://github.com/acme/gadgets",
       stars |-> 1, updated_at |-> 1],
      [full_name |-> <<65, 98>>, url |-> "https://github.com/acme/widgets",
       stars |-> 0, updated_at |-> 2],
      [full_name |-> <<37, 98>>, url |-> "https://github.com/acme/gadgets",
       stars |-> 2, updated_at |-> 1] }

Idle       == [op |-> "idle"]
NoResponse == [status |-> 0, body |-> <<>>]

Min(a, b) == IF a < b THEN a ELSE b
Max(a, b) == IF a > b THEN a ELSE b

-----------------------------------------------------------------------------
(* The tables: repository (id primary key, full_name unique) and            *)
(* ai_analysis (url unique), empty before the writers run                   *)

Init ==
    /\ repos = {}
    /\ analyses = {}
    /\ req = Idle
    /\ resp = NoResponse
    /\ queries = <<>>

-----------------------------------------------------------------------------
(* What the database does with the statements the handlers send *)

Lower(c) == IF c \in 65 .. 90 THEN c + 32 ELSE c

LowerText(s) == [i \in 1 .. Len(s) |-> Lower(s[i])]

\* PostgreSQL LIKE: '%' (37) matches any run of characters, '_' (95) any one
\* character, '\' (92) makes the next pattern character literal.
RECURSIVE LikeMatch(_, _)
LikeMatch(s, p) ==
    IF p = <<>> THEN s = <<>>
    ELSE IF p[1] = 37 THEN
        \/ LikeMatch(s, Tail(p))
        \/ s # <<>> /\ LikeMatch(Tail(s), p)
    ELSE IF p[1] = 95 THEN
        s # <<>> /\ LikeMatch(Tail(s), Tail(p))
    ELSE IF p[1] = 92 /\ Len(p) > 1 THEN
        s # <<>> /\ s[1] = p[2] /\ LikeMatch(Tail(s), Tail(Tail(p)))
    ELSE
        s # <<>> /\ s[1] = p[1] /\ LikeMatch(Tail(s), Tail(p))

\* column.ilike(pattern)
ilike(s, p) == LikeMatch(LowerText(s), LowerText(p))

\* every enumeration of the rows S without repetition
Perms(S) ==
    { f \in [1 .. Cardinality(S) -> S] :
        \A i, j \in 1 .. Cardinality(S) : i # j => f[i] # f[j] }

\* SELECT without ORDER BY: the order is the database's choice
NaturalOrders(S) == Perms(S)

\* mutant: ORDER BY stars ASC
StarsAscOrders(S) ==
    { f \in Perms(S) : \A i \in 1 .. Len(f) - 1 : f[i].stars <= f[i + 1].stars }

\* ORDER BY stars DESC: ties in any order
StarsDescOrders(S) ==
    { f \in Perms(S) : \A i \in 1 .. Len(f) - 1 : f[i].stars >= f[i + 1].stars }

\* ORDER BY updated_at DESC: PostgreSQL puts NULL first, ties in any order
UpdatedDescOrders(S) ==
    { f \in Perms(S) :
        \A i \in 1 .. Len(f) - 1 :
            \/ f[i].updated_at = NoTime
            \/ f[i + 1].updated_at # NoTime /\ f[i].updated_at >= f[i + 1].updated_at }

\* OFFSET skip LIMIT limit over the ordered rows (both non-negative)
OffsetLimit(rows, skip, limit) ==
    [i \in 1 .. Max(0, Min(limit, Len(rows) - skip)) |-> rows[skip + i]]

\* the outcome of a statement, or of a Python call: an exception or a value
Raise     == [raised |-> TRUE, value |-> <<>>]
Return(v) == [raised |-> FALSE, value |-> v]

\* one entry of the record of statements a request has sent
Statement(table, key, failed) == [table |-> table, key |-> key, failed |-> failed]

-----------------------------------------------------------------------------
(* app/api/routes/repositories.py *)

\* mutant: the lookup without its url filter
first_analysis_unfiltered(url, db) ==
    IF db.fails THEN Raise
    ELSE IF db.analyses # {}
         THEN Return(Some(CHOOSE a \in db.analyses : TRUE))
         ELSE Return(None)

\* query.filter(AIAnalysis.url == url).first() on a session db
first_analysis(url, db) ==
    IF db.fails THEN Raise
    ELSE IF \E a \in db.analyses : a.url = url
         THEN Return(Some(CHOOSE a \in db.analyses : a.url = url))
         ELSE Return(None)

\* mutant: a failed lookup is swallowed and reported as no analysis
repo_with_analysis_swallowing(repo, db) ==
    LET analysis == first_analysis(repo.url, db) IN
    IF ~analysis.raised /\ analysis.value # None
    THEN Return(repo @@ ("analysis" :>
            Some([content |-> analysis.value[1].content,
                  status  |-> analysis.value[1].status])))
    ELSE Return(repo @@ ("analysis" :> None))

repo_with_analysis(repo, db) ==
    LET analysis == first_analysis(repo.url, db) IN
    IF analysis.raised THEN Raise
    ELSE IF analysis.value # None
         THEN Return(repo @@ ("analysis" :>
                 Some([content |-> analysis.value[1].content,
                       status  |-> analysis.value[1].status])))
         ELSE Return(repo @@ ("analysis" :> None))

\* the rows q keeps: `if q:` skips the filter for None and for ""
Filtered(S, q) ==
    IF q # None /\ q[1] # <<>>
    THEN { r \in S : ilike(r.full_name, <<37>> \o q[1] \o <<37>>) }
    ELSE S

\* [repo_with_analysis(r, db) for r in page], the k-th lookup failing (0: none)
EnrichEach(page, k) ==
    [i \in 1 .. Len(page) |->
        repo_with_analysis(page[i], [analyses |-> analyses, fails |-> (i = k)])]

\* the first element whose evaluation raised, or 0
FirstRaised(results) ==
    IF \E i \in 1 .. Len(results) : results[i].raised
    THEN CHOOSE i \in 1 .. Len(results) :
            /\ results[i].raised
            /\ \A j \in 1 .. i - 1 : ~results[j].raised
    ELSE 0

\* the lookups the comprehension has sent when it ends, the k-th having failed
LookupsSent(page, k, results) ==
    LET n == IF FirstRaised(results) = 0 THEN Len(page) ELSE FirstRaised(results) IN
    [i \in 1 .. n |-> Statement("ai_analysis", page[i].url, i = k)]

Ok(body)           == [status |-> 200, body |-> body]
ValidationError    == [status |-> 422, body |-> [detail |-> "validation error"]]
ServerError        == [status |-> 500, body |-> [detail |-> "Internal Server Error"]]

\* the response to a list request whose page statement returned `page`
ListResponse(results) ==
    IF FirstRaised(results) # 0 THEN ServerError
    ELSE Ok([i \in 1 .. Len(results) |-> results[i].value])

\* the page statement fails on its own when OFFSET or LIMIT is negative
PageFails(skip, limit) == skip < 0 \/ limit < 0

\* answers a list request: orders is what the page statement may return
\* before OFFSET/LIMIT, failAt the statement of the request that fails
ServeList(r, orders, skip, limit) ==
    \E failAt \in 0 .. MaxRepos + 1 :
        IF failAt = 1 \/ PageFails(skip, limit)
        THEN /\ req' = r
             /\ resp' = ServerError
             /\ queries' = << Statement("repository", "page", TRUE) >>
        ELSE \E order \in orders :
                LET page    == OffsetLimit(order, skip, limit)
                    k       == IF failAt = 0 THEN 0 ELSE failAt - 1
                    results == EnrichEach(page, k)
                IN  /\ k <= Len(page)
                    /\ req' = r
                    /\ resp' = ListResponse(results)
                    /\ queries' = << Statement("repository", "page", FALSE) >>
                                    \o LookupsSent(page, k, results)

Reject(r) ==
    /\ req' = r
    /\ resp' = ValidationError
    /\ queries' = <<>>

get_repositories(q, skip, limit) ==
    /\ LET r == [op |-> "search", q |-> q, skip |-> skip, limit |-> limit] IN
       IF ~skip.int \/ ~limit.int THEN Reject(r)
       ELSE ServeList(r, NaturalOrders(Filtered(repos, q)), skip.v, limit.v)
    /\ UNCHANGED stores

TopOrders(sort) ==
    IF sort = "stars" THEN StarsDescOrders(repos)
    ELSE IF sort = "updated" THEN UpdatedDescOrders(repos)
    ELSE NaturalOrders(repos)

get_top_repositories(sort, limit) ==
    /\ LET r == [op |-> "top", sort |-> sort, limit |-> limit] IN
       IF ~limit.int THEN Reject(r)
       ELSE ServeList(r, TopOrders(sort), 0, limit.v)
    /\ UNCHANGED stores

NotFound == [error |-> "Not found"]

\* mutant: without the `if not repo` test, repo.url of None raises
get_repository_detail_unchecked(repo_id) ==
    /\ LET r == [op |-> "getById", id |-> repo_id] IN
       IF ~repo_id.int THEN Reject(r)
       ELSE \E failAt \in 0 .. 2 :
            IF failAt = 1
            THEN /\ req' = r
                 /\ resp' = ServerError
                 /\ queries' = << Statement("repository", "id", TRUE) >>
            ELSE IF ~\E repo \in repos : repo.id = repo_id.v
            THEN /\ failAt = 0
                 /\ req' = r
                 /\ resp' = ServerError
                 /\ queries' = << Statement("repository", "id", FALSE) >>
            ELSE LET repo   == CHOOSE x \in repos : x.id = repo_id.v
                     result == repo_with_analysis(repo,
                                   [analyses |-> analyses, fails |-> (failAt = 2)])
                 IN  /\ req' = r
                     /\ resp' = IF result.raised THEN ServerError ELSE Ok(result.value)
                     /\ queries' = << Statement("repository", "id", FALSE),
                                      Statement("ai_analysis", repo.url, failAt = 2) >>
    /\ UNCHANGED stores

get_repository_detail(repo_id) ==
    /\ LET r == [op |-> "getById", id |-> repo_id] IN
       IF ~repo_id.int THEN Reject(r)
       ELSE \E failAt \in 0 .. 2 :
            IF failAt = 1
            THEN /\ req' = r
                 /\ resp' = ServerError
                 /\ queries' = << Statement("repository", "id", TRUE) >>
            ELSE IF ~\E repo \in repos : repo.id = repo_id.v
            THEN /\ failAt = 0
                 /\ req' = r
                 /\ resp' = Ok(NotFound)
                 /\ queries' = << Statement("repository", "id", FALSE) >>
            ELSE LET repo   == CHOOSE x \in repos : x.id = repo_id.v
                     result == repo_with_analysis(repo,
                                   [analyses |-> analyses, fails |-> (failAt = 2)])
                 IN  /\ req' = r
                     /\ resp' = IF result.raised THEN ServerError ELSE Ok(result.value)
                     /\ queries' = << Statement("repository", "id", FALSE),
                                      Statement("ai_analysis", repo.url, failAt = 2) >>
    /\ UNCHANGED stores

-----------------------------------------------------------------------------
(* app/api/routes/analysis.py *)

\* "暂无分析结果" (U+6682 U+65E0 U+5206 U+6790 U+7ED3 U+679C)
PlaceholderContent == << 26242, 26080, 20998, 26512, 32467, 26524 >>

\* mutant: the test of the lookup inverted
analyze_project_inverted(url) ==
    /\ \E fails \in BOOLEAN :
        LET analysis == first_analysis(url, [analyses |-> analyses, fails |-> fails]) IN
        /\ req' = [op |-> "getOrPending", url |-> url]
        /\ queries' = << Statement("ai_analysis", url, fails) >>
        /\ resp' = IF analysis.raised THEN ServerError
                   ELSE IF analysis.value = None
                   THEN Ok([content |-> <<>>, status |-> "completed"])
                   ELSE Ok([content |-> PlaceholderContent, status |-> "pending"])
    /\ UNCHANGED stores

\* mutant: a url without analysis gets a pending row
analyze_project_creating(url) ==
    /\ \E fails \in BOOLEAN :
        LET analysis == first_analysis(url, [analyses |-> analyses, fails |-> fails]) IN
        /\ req' = [op |-> "getOrPending", url |-> url]
        /\ queries' = << Statement("ai_analysis", url, fails) >>
        /\ resp' = IF analysis.raised THEN ServerError
                   ELSE IF analysis.value # None
                   THEN Ok([content |-> analysis.value[1].content,
                            status  |-> analysis.value[1].status])
                   ELSE Ok([content |-> PlaceholderContent, status |-> "pending"])
        /\ analyses' = IF ~analysis.raised /\ analysis.value = None
                       THEN analyses \cup { [url |-> url, content |-> <<>>, status |-> "pending"] }
                       ELSE analyses
    /\ UNCHANGED repos

analyze_project(url) ==
    /\ \E fails \in BOOLEAN :
        LET analysis == first_analysis(url, [analyses |-> analyses, fails |-> fails]) IN
        /\ req' = [op |-> "getOrPending", url |-> url]
        /\ queries' = << Statement("ai_analysis", url, fails) >>
        /\ resp' = IF analysis.raised THEN ServerError
                   ELSE IF analysis.value # None
                   THEN Ok([content |-> analysis.value[1].content,
                            status  |-> analysis.value[1].status])
                   ELSE Ok([content |-> PlaceholderContent, status |-> "pending"])
    /\ UNCHANGED stores

-----------------------------------------------------------------------------
(* The external writers: the crawler and the analysis pipeline *)

exchange == <<req, resp, queries>>

InsertRepository(full_name, url, stars, updated_at) ==
    /\ Cardinality(repos) < MaxRepos
    /\ \A r \in repos : r.full_name # full_name
    /\ repos' = repos \cup
         { [id |-> Cardinality(repos) + 1, full_name |-> full_name, url |-> url,
            stars |-> stars, updated_at |-> updated_at] }
    /\ UNCHANGED <<analyses, exchange>>

InsertAnalysis(url, content, status) ==
    /\ \A a \in analyses : a.url # url
    /\ analyses' = analyses \cup { [url |-> url, content |-> content, status |-> status] }
    /\ UNCHANGED <<repos, exchange>>

\* the pipeline settles a pending analysis
UpdateAnalysis(url, content, status) ==
    /\ status \in { "completed", "failed" }
    /\ \E a \in analyses :
        /\ a.url = url
        /\ a.status = "pending"
        /\ analyses' = (analyses \ {a})
                         \cup { [url |-> url, content |-> content, status |-> status] }
    /\ UNCHANGED <<repos, exchange>>

\* the response has gone out and get_db has closed the session
Complete ==
    /\ req # Idle
    /\ req' = Idle
    /\ resp' = NoResponse
    /\ queries' = <<>>
    /\ UNCHANGED stores

-----------------------------------------------------------------------------
(* One exchange at a time, every parameter value *)

Next ==
    \/ req = Idle /\ \E c \in Catalogue :
         InsertRepository(c.full_name, c.url, c.stars, c.updated_at)
    \/ req = Idle /\ \E u \in Urls, a \in AnalysisInputs : InsertAnalysis(u, a[1], a[2])
    \/ req = Idle /\ \E u \in Urls, a \in AnalysisInputs : UpdateAnalysis(u, a[1], a[2])
    \/ req = Idle /\ \E q \in QueryParams, skip \in SkipParams, limit \in LimitParams :
         get_repositories(q, skip, limit)
    \/ req = Idle /\ \E sort \in SortParams, limit \in LimitParams :
         get_top_repositories(sort, limit)
    \/ req = Idle /\ \E id \in IdParams : get_repository_detail(id)
    \/ req = Idle /\ \E u \in Urls : analyze_project(u)
    \/ Complete

Spec == Init /\ [][Next]_vars

-----------------------------------------------------------------------------
(* A client that sends its next request as soon as it has the response,     *)
(* with no write in between                                                 *)

NextSession ==
    \/ req = Idle /\ \E c \in Catalogue :
         InsertRepository(c.full_name, c.url, c.stars, c.updated_at)
    \/ req = Idle /\ \E u \in Urls, a \in AnalysisInputs : InsertAnalysis(u, a[1], a[2])
    \/ req = Idle /\ \E u \in Urls, a \in AnalysisInputs : UpdateAnalysis(u, a[1], a[2])
    \/ \E skip \in { IntParam(0), IntParam(1) } : get_repositories(None, skip, IntParam(1))
    \/ \E sort \in { "stars", "forks" } : get_top_repositories(sort, IntParam(1))
    \/ get_repository_detail(IntParam(1))
    \/ \E u \in Urls : analyze_project(u)
    \/ Complete

SpecSession == Init /\ [][NextSession]_vars

-----------------------------------------------------------------------------
(* Properties *)

IsList == req.op \in { "search", "top" }

\* the analysis the url join gives a repository url in the current tables
JoinOf(url) ==
    IF \E a \in analyses : a.url = url
    THEN LET a == CHOOSE x \in analyses : x.url = url
         IN  Some([content |-> a.content, status |-> a.status])
    ELSE None

\* the repository columns of an enriched record
RepoPart(e) == [k \in DOMAIN e \ { "analysis" } |-> e[k]]

\* C1: every record returned by search, topRepositories or getById carries
\* {content, status} of the analysis row with the same url, or null when the
\* tables hold no such row; this holds for the tables as they are at the call,
\* so also on the first call after the pipeline inserted the row.
C1_EnrichmentIsUrlJoin ==
    /\ (IsList /\ resp.status = 200) =>
          \A i \in 1 .. Len(resp.body) :
              /\ RepoPart(resp.body[i]) \in repos
              /\ resp.body[i].analysis = JoinOf(resp.body[i].url)
    /\ (req.op = "getById" /\ resp.status = 200 /\ resp.body # NotFound) =>
          /\ RepoPart(resp.body) \in repos
          /\ resp.body.analysis = JoinOf(resp.body.url)

\* a search answer with one record that has its analysis and one that has none
C1_Witness ==
    /\ req.op = "search"
    /\ resp.status = 200
    /\ \E i, j \in 1 .. Len(resp.body) :
          /\ resp.body[i].analysis # None
          /\ resp.body[i].analysis = JoinOf(resp.body[i].url)
          /\ resp.body[j].analysis = None

\* "no analysis available yet"
SpecPlaceholderContent ==
    << 110, 111, 32, 97, 110, 97, 108, 121, 115, 105, 115, 32, 97, 118, 97, 105,
       108, 97, 98, 108, 101, 32, 121, 101, 116 >>

AnalyzeAnswer(placeholder) ==
    (req.op = "getOrPending" /\ resp.status = 200) =>
        IF \E a \in analyses : a.url = req.url
        THEN \E a \in analyses :
                /\ a.url = req.url
                /\ resp.body = [content |-> a.content, status |-> a.status]
        ELSE resp.body = [content |-> placeholder, status |-> "pending"]

ContainsIgnoreCase(s, t) ==
    \E i \in 0 .. Len(s) - Len(t) :
        \A j \in 1 .. Len(t) : Lower(s[i + j]) = Lower(t[j])

Returned == { RepoPart(resp.body[i]) : i \in 1 .. Len(resp.body) }

\* C3: search(query=Q) returns only records whose full_name contains Q as a
\* case-insensitive substring, '%' and '_' taken literally; with offset 0 and a
\* limit of at least the table size it returns every such record; without Q
\* nothing is filtered out.
C3_SearchFilter ==
    (req.op = "search" /\ resp.status = 200) =>
        LET whole == req.skip.v = 0 /\ req.limit.v >= Cardinality(repos) IN
        IF req.q = None
        THEN whole => Returned = repos
        ELSE /\ \A r \in Returned : ContainsIgnoreCase(r.full_name, req.q[1])
             /\ whole => Returned = { r \in repos : ContainsIgnoreCase(r.full_name, req.q[1]) }

\* C4: over an unchanged table, search(offset=0, limit=k) followed by
\* search(offset=k, limit=k) with the same query return disjoint sets of
\* records, and when the two pages reach the end of the matches they return
\* every matching record exactly once.
C4_PagesDisjoint ==
    [][ ( /\ req.op = "search" /\ req'.op = "search"
          /\ resp.status = 200 /\ resp'.status = 200
          /\ req'.q = req.q
          /\ req.skip.v = 0 /\ req.limit.v > 0
          /\ req'.skip.v = req.limit.v /\ req'.limit.v = req.limit.v )
        => LET first   == { RepoPart(resp.body[i]) : i \in 1 .. Len(resp.body) }
               second  == { RepoPart(resp'.body[i]) : i \in 1 .. Len(resp'.body) }
               matches == Filtered(repos, req.q)
           IN  /\ first \cap second = {}
               /\ Cardinality(matches) <= 2 * req.limit.v => first \cup second = matches
      ]_vars

\* C5: topRepositories(sort=stars, limit=L) over n records returns min(L, n)
\* distinct records in non-increasing order of stars, and no record left out
\* has more stars than a returned one.
C5_TopStars ==
    (req.op = "top" /\ req.sort = "stars" /\ resp.status = 200) =>
        /\ Len(resp.body) = Min(req.limit.v, Cardinality(repos))
        /\ Returned \subseteq repos
        /\ Cardinality(Returned) = Len(resp.body)
        /\ \A i \in 1 .. Len(resp.body) - 1 : resp.body[i].stars >= resp.body[i + 1].stars
        /\ \A r \in repos \ Returned : \A e \in Returned : r.stars <= e.stars

\* top by stars with a cutoff: something is returned, something with fewer
\* stars is left out
C5_Witness ==
    /\ req.op = "top" /\ req.sort = "stars" /\ resp.status = 200
    /\ Len(resp.body) = 2
    /\ resp.body[1].stars > resp.body[2].stars
    /\ \E r \in repos \ Returned : r.stars < resp.body[2].stars

RepositoryColumns == { "id", "full_name", "url", "stars", "updated_at" }

NoLookup == \A i \in 1 .. Len(queries) : queries[i].table # "ai_analysis"
NoFailure == \A i \in 1 .. Len(queries) : ~queries[i].failed

\* C6: getById(id) for an integer id that matches no row answers
\* {error: "Not found"} as a normal response, with no repository field and
\* without an analysis lookup; for an id that matches a row it answers that
\* row enriched, never the NotFound result.  (A failing statement is C10's case.)
C6_GetById ==
    (req.op = "getById" /\ req.id.int) =>
        IF \E r \in repos : r.id = req.id.v
        THEN NoFailure =>
                /\ resp.status = 200
                /\ DOMAIN resp.body = RepositoryColumns \cup { "analysis" }
                /\ RepoPart(resp.body) \in repos
                /\ resp.body.id = req.id.v
        ELSE /\ NoLookup
             /\ NoFailure => (resp.status = 200 /\ resp.body = [error |-> "Not found"])

\* getById answered NotFound while the table holds other rows
C6_Witness ==
    /\ req.op = "getById" /\ req.id.int
    /\ repos # {}
    /\ \A r \in repos : r.id # req.id.v
    /\ resp.status = 200
    /\ DOMAIN resp.body = { "error" }

\* C7: no handler step creates, updates or deletes a row of either table;
\* rows change only in steps of the external writers.
C7_ReadOnly ==
    [][ (req' # Idle /\ <<req, resp, queries>>' # <<req, resp, queries>>)
        => (repos' = repos /\ analyses' = analyses) ]_vars

\* getOrPending has answered with the placeholder and the url still has no row
C7_Witness ==
    /\ req.op = "getOrPending"
    /\ resp = Ok([content |-> PlaceholderContent, status |-> "pending"])
    /\ repos # {}
    /\ analyses # {}
    /\ \A a \in analyses : a.url # req.url

\* C8: over unchanged tables, two calls of the same read operation with the
\* same parameters, both answered, return the same result, records in the
\* same order.
C8_Idempotent ==
    [][ (req # Idle /\ req' = req /\ resp.status = 200 /\ resp'.status = 200)
        => resp'.body = resp.body ]_vars

IsMalformed ==
    \/ req.op = "getById" /\ ~req.id.int
    \/ req.op = "search" /\ (~req.skip.int \/ req.skip.v < 0)
    \/ IsList /\ (~req.limit.int \/ req.limit.v <= 0)

\* C9: a request whose id is not an integer, whose offset is negative or whose
\* limit is not a positive integer gets a client error before any statement
\* is sent.
C9_MalformedFailsFast ==
    IsMalformed => (resp.status = 422 /\ queries = <<>>)

\* C10: when a statement of a search, topRepositories or getById call fails,
\* the call fails as a whole: no list and no record is returned, the failed
\* statement is the last one the call sent (no retry, nothing after it), and
\* so a failed lookup is never answered as analysis: null.
C10_AllOrNothing ==
    (req.op \in { "search", "top", "getById" }) =>
        \A i \in 1 .. Len(queries) :
            queries[i].failed => (resp = ServerError /\ i = Len(queries))

\* a list call whose second analysis lookup failed after the first succeeded
C10_Witness ==
    /\ IsList
    /\ Len(queries) = 3
    /\ queries[3].table = "ai_analysis"
    /\ queries[3].failed
    /\ resp.status = 500

====
